---------------------------- MODULE Spec2Model ----------------------------
(***************************************************************************)
(* Waiting-time segmentation and the feature calculators built on it       *)
(* (location/features.py, location/location_features.py).                  *)
(*                                                                         *)
(* A series is a sequence of observations [time, cluster].  Timestamps are *)
(* whole seconds since the first observation; the per-observation weight   *)
(* `td` is a pandas Timedelta that is a multiple of half a second, so it   *)
(* is kept in HALF-SECONDS.  Timedelta.seconds is the seconds component of *)
(* the (days, seconds, microseconds) normal form: floor to whole seconds,  *)
(* then modulo one day.                                                    *)
(***************************************************************************)
EXTENDS Integers, Sequences, FiniteSets, TLC

VARIABLES data, wait_time_v, call

vars == <<data, wait_time_v, call>>

-----------------------------------------------------------------------------
(* Bounds of the model *)

\* longest series with freely mixed sampling gaps
MaxLen == 4

\* longest evenly sampled series (the documented caller contract)
MaxEvenLen == 6

\* longest series whose timestamps break the ordering contract
MaxLenUnordered == 3

\* longest series with coordinates of their own on every row
MaxLenGeo == 3

\* longest series whose rows lie at the place of their cluster
MaxLenClustered == 5

(* Program constants *)

SecondsPerDay == 86400

Absent == 0

ClusterIds == {1, 2}

Labels == ClusterIds \cup {Absent}

HalfDay == SecondsPerDay \div 2

\* sampling gaps (seconds) of a well-formed series: strictly increasing time
Gaps == {1, 2, HalfDay}

\* gaps of a series that breaks the ordering contract: duplicates, reversals
UnorderedGaps == Gaps \cup {0, -1}

-----------------------------------------------------------------------------
(* Values returned to the caller *)

NaN == [kind |-> "nan"]

Num(v) == [kind |-> "num", val |-> v]

Raise(e) == [kind |-> "raise", exc |-> e]

None == [kind |-> "none"]

-----------------------------------------------------------------------------
(* Series construction *)

RECURSIVE TimesFrom(_, _)
TimesFrom(gs, t0) ==
    IF gs = <<>> THEN <<t0>>
    ELSE <<t0>> \o TimesFrom(Tail(gs), t0 + Head(gs))

\* a missing latitude/longitude
NoPos == -1

\* geohash.decode of a cluster id: the place the id stands for, on a line
convert_geohash_to_gps(c) == c * c

\* the coordinates convert_and_append_geohash writes on a row of cluster c
GeohashPos(c) == IF c = Absent THEN NoPos ELSE convert_geohash_to_gps(c)

Row(t, c, x) == [time |-> t, cluster |-> c, pos |-> x]

MkSeries(gs, cs) ==
    LET ts == TimesFrom(gs, 0)
    IN  [i \in 1..Len(cs) |-> Row(ts[i], cs[i], GeohashPos(cs[i]))]

SeriesOfLen(n, G) ==
    IF n = 0 THEN {<<>>}
    ELSE {MkSeries(gs, cs) : gs \in [1..(n-1) -> G], cs \in [1..n -> Labels]}

AllSeries(maxlen, G) == UNION {SeriesOfLen(n, G) : n \in 0..maxlen}

\* evenly sampled series: one gap g between every two consecutive rows
EvenSeries(maxlen, G) ==
    UNION {{MkSeries([i \in 1..(n-1) |-> g], cs) : g \in G, cs \in [1..n -> Labels]} :
           n \in 2..maxlen}

\* cluster ids, labels and places of the series with coordinates
GeoClusterIds == {1, 2, 3}

GeoLabels == GeoClusterIds \cup {Absent}

Places == {convert_geohash_to_gps(c) : c \in GeoClusterIds}

\* the coordinates a series of labels cs can carry: any, row by row, up to
\* MaxLenGeo rows; beyond, every row lies at the place of its cluster
GeoCoords(cs) ==
    IF Len(cs) <= MaxLenGeo
    THEN [1..Len(cs) -> Places \cup {NoPos}]
    ELSE {[i \in 1..Len(cs) |-> GeohashPos(cs[i])]}

\* rows one second apart
MkGeoSeries(cs, xs) == [i \in 1..Len(cs) |-> Row(i - 1, cs[i], xs[i])]

\* the cluster column of test_num_trips' last frame
ScenarioClusters == <<1, 1, Absent, 2, 1, Absent>>

-----------------------------------------------------------------------------
(* pandas helpers *)

isnull(c) == c = Absent

\* Timedelta.seconds of a Timedelta of h half-seconds
Seconds(h) == (h \div 2) % SecondsPerDay

\* data['td'] without the halving of the first and the last gap
TdWholeEnds(d, i) ==
    IF i = 1 THEN 2 * (d[2].time - d[1].time)
    ELSE IF i = Len(d) THEN 2 * (d[Len(d)].time - d[Len(d) - 1].time)
    ELSE (d[i + 1].time - d[i].time) + (d[i].time - d[i - 1].time)

\* data['td'], in half-seconds, for row i (1-based) of a series of >= 2 rows
Td(d, i) ==
    IF i = 1 THEN d[2].time - d[1].time
    ELSE IF i = Len(d) THEN d[Len(d)].time - d[Len(d) - 1].time
    ELSE (d[i + 1].time - d[i].time) + (d[i].time - d[i - 1].time)

RECURSIVE SumTd(_, _)
\* data.loc[data.index.isin(rows), 'td'].sum(), rows a set of positions;
\* positions outside the frame select nothing, and the sum of an empty
\* timedelta column is Timedelta(0)
SumTd(d, rows) ==
    LET inside == rows \cap (1..Len(d))
    IN  IF inside = {} THEN 0
        ELSE LET i == CHOOSE x \in inside : TRUE
             IN  Td(d, i) + SumTd(d, inside \ {i})

Range(s) == {s[i] : i \in 1..Len(s)}

RECURSIVE SumSeq(_)
SumSeq(s) == IF s = <<>> THEN 0 ELSE Head(s) + SumSeq(Tail(s))

RECURSIVE SumFn(_, _)
SumFn(f, ks) ==
    IF ks = {} THEN 0
    ELSE LET k == CHOOSE x \in ks : TRUE IN f[k] + SumFn(f, ks \ {k})

Max(S) == CHOOSE x \in S : \A y \in S : y <= x

Min(S) == CHOOSE x \in S : \A y \in S : x <= y

-----------------------------------------------------------------------------
(* wait_time *)

\* first position whose cluster is not null, Len(d) + 1 when there is none
RECURSIVE SkipLeading(_, _)
SkipLeading(d, i) ==
    IF i <= Len(d) /\ isnull(d[i].cluster) THEN SkipLeading(d, i + 1) ELSE i

CloseRun(d, curr_c, waittime) == Append(waittime, Seconds(SumTd(d, Range(curr_c))))

RECURSIVE ScanKeepsRun(_, _, _, _)
\* mutant: a null cluster does not close the open run
ScanKeepsRun(d, p, curr_c, waittime) ==
    IF p > Len(d) THEN <<curr_c, waittime>>
    ELSE LET curr_cluster == d[p].cluster IN
         IF isnull(curr_cluster)
         THEN ScanKeepsRun(d, p + 1, curr_c, waittime)
         ELSE IF Len(curr_c) = 0
              THEN ScanKeepsRun(d, p + 1, Append(curr_c, p), waittime)
              ELSE IF d[curr_c[Len(curr_c)]].cluster # curr_cluster
                   THEN ScanKeepsRun(d, p + 1, <<p>>, CloseRun(d, curr_c, waittime))
                   ELSE ScanKeepsRun(d, p + 1, Append(curr_c, p), waittime)

RECURSIVE Scan(_, _, _, _)
\* the loop "for p in range(i + 1, l)": returns <<curr_c, waittime>>
Scan(d, p, curr_c, waittime) ==
    IF p > Len(d) THEN <<curr_c, waittime>>
    ELSE LET curr_cluster == d[p].cluster IN
         IF isnull(curr_cluster)
         THEN IF Len(curr_c) = 0
              THEN Scan(d, p + 1, curr_c, waittime)
              ELSE Scan(d, p + 1, <<>>, CloseRun(d, curr_c, waittime))
         ELSE IF Len(curr_c) = 0
              THEN Scan(d, p + 1, Append(curr_c, p), waittime)
              ELSE IF d[curr_c[Len(curr_c)]].cluster # curr_cluster
                   THEN Scan(d, p + 1, <<p>>, CloseRun(d, curr_c, waittime))
                   ELSE Scan(d, p + 1, Append(curr_c, p), waittime)

\* the rows of each group of data.groupby(cluster_c): null keys are dropped
GroupRows(d, c) == {i \in 1..Len(d) : d[i].cluster = c}

GroupKeys(d) == {d[i].cluster : i \in 1..Len(d)} \ {Absent}

ClusterWt(d) == [c \in GroupKeys(d) |-> Seconds(SumTd(d, GroupRows(d, c)))]

Returned(wt, cwt) == [kind |-> "ret", waittime |-> wt, cluster_wt |-> cwt]

EmptyTable == [c \in {} |-> 0]

\* the segmentation of a series of at least two rows
Segment(d) ==
    LET i    == SkipLeading(d, 1)
        scan == Scan(d, i + 1, <<i>>, <<>>)
        last == IF Len(scan[1]) > 0
                THEN CloseRun(d, scan[1], scan[2])
                ELSE scan[2]
    IN  Returned(last, ClusterWt(d))

\* mutant: a single row is segmented with a zero weight instead of returning
wait_time_placeholder(d) ==
    IF Len(d) = 0 THEN Returned(<<>>, EmptyTable)
    ELSE IF Len(d) = 1
         THEN Returned(IF isnull(d[1].cluster) THEN <<>> ELSE <<0>>,
                       [c \in GroupKeys(d) |-> 0])
         ELSE Segment(d)

\* mutant: timestamps are validated before the segmentation
wait_time_validating(d) ==
    IF Len(d) <= 1 THEN Returned(<<>>, EmptyTable)
    ELSE IF \E i \in 1..(Len(d) - 1) : d[i + 1].time <= d[i].time
         THEN Raise("ValueError")
         ELSE Segment(d)

wait_time(d) ==
    IF Len(d) <= 1 THEN Returned(<<>>, EmptyTable)
    ELSE Segment(d)

-----------------------------------------------------------------------------
(* math.log, in millionths of a nat *)

\* math.log of the primes below 32
PrimeLn ==
    [k \in {2, 3, 5, 7, 11, 13, 17, 19, 23, 29, 31} |->
        CASE k = 2  -> 693147
          [] k = 3  -> 1098612
          [] k = 5  -> 1609438
          [] k = 7  -> 1945910
          [] k = 11 -> 2397895
          [] k = 13 -> 2564949
          [] k = 17 -> 2833213
          [] k = 19 -> 2944439
          [] k = 23 -> 3135494
          [] k = 29 -> 3367296
          [] k = 31 -> 3433987]

\* 2 * atanh(1 / c) = ln((c + 1) / (c - 1)), two terms of the series
LnStep(c) ==
    (2000000 \div c) + (IF c <= 100 THEN 2000000 \div (3 * c * c * c) ELSE 0)

RECURSIVE LnMicro(_)
\* math.log(k) for an integer k >= 1: additive over the factors of k, so that
\* ln(a * b) = ln(a) + ln(b) holds exactly; a prime above 31 is reached from
\* k - 1 by ln(k) = ln(k - 1) + 2 * atanh(1 / (2k - 1))
LnMicro(k) ==
    IF k = 1 THEN 0
    ELSE IF k \in DOMAIN PrimeLn THEN PrimeLn[k]
    ELSE IF \E x \in 2..300 : x * x <= k /\ k % x = 0
         THEN LET x == CHOOSE y \in 2..300 : y * y <= k /\ k % y = 0
              IN  LnMicro(x) + LnMicro(k \div x)
         ELSE LnMicro(k - 1) + LnStep(2 * k - 1)

\* floor(r * x / t) for 0 <= r < t < 2^17 and 0 <= x < 2^24, in 32-bit steps
MulDiv(r, x, t) ==
    LET xh == x \div 1000
        xl == x % 1000
    IN  1000 * ((r * xh) \div t) + (1000 * ((r * xh) % t)) \div t + (r * xl) \div t

\* a term below -50 nats is kept as -50 nats: no sum of the other terms (each
\* at most 1/e) brings the entropy back to zero
EntropyFloor == -50 * 1000000

\* -p * math.log(p) for p = a / t, a >= 1, t >= 1
EntropyTerm(a, t) ==
    IF a < t THEN MulDiv(a, LnMicro(t) - LnMicro(a), t)
    ELSE IF a \div t >= 20 THEN EntropyFloor
    ELSE LET x == LnMicro(a) - LnMicro(t)
         IN  -((a \div t) * x + MulDiv(a % t, x, t))

RECURSIVE SumTerms(_, _, _)
SumTerms(cwt, ks, t) ==
    IF ks = {} THEN 0
    ELSE LET k == CHOOSE x \in ks : TRUE
         IN  EntropyTerm(cwt[k], t) + SumTerms(cwt, ks \ {k}, t)

-----------------------------------------------------------------------------
(* entropy, norm_entropy *)

\* (max(time_col) - min(time_col)).seconds
total_time(d) ==
    LET ts == {d[i].time : i \in 1..Len(d)}
    IN  Seconds(2 * (Max(ts) - Min(ts)))

\* "if wait_time_v is None: wt, cwt = wait_time(...) else: wt, cwt = wait_time_v"
WaitTimeOr(d, wtv) == IF wtv = None THEN wait_time(d) ELSE wtv

\* len(np.unique(data[cluster_c].dropna()))
NumUnique(d) == Cardinality(GroupKeys(d))

\* the entropy loop "for k in cwt": a number, or the exception it stops with
EntropyLoop(cwt, t) ==
    IF DOMAIN cwt = {} THEN Num(0)
    ELSE IF t = 0 THEN Raise("ZeroDivisionError")
    ELSE IF \E k \in DOMAIN cwt : cwt[k] = 0 THEN Raise("ValueError")
    ELSE Num(SumTerms(cwt, DOMAIN cwt, t))

\* ent of features.entropy and of location_features.entropy
EntropyValue(d, wtv) ==
    IF Len(d) = 0 THEN NaN
    ELSE LET w == WaitTimeOr(d, wtv) IN
         IF w.kind = "raise" THEN w
         ELSE IF Len(w.waittime) = 0 THEN NaN
         ELSE EntropyLoop(w.cluster_wt, total_time(d))

\* ent / math.log(n), kept as the fraction num / den of millionths
Ratio(num, den) == [kind |-> "ratio", num |-> num, den |-> den]

\* nent of features.entropy
NormOf(d, ent) ==
    IF ent.kind = "nan" THEN NaN
    ELSE LET n == NumUnique(d) IN
         IF n = 1 THEN NaN
         ELSE IF n = 0 THEN Raise("ValueError")
         ELSE Ratio(ent.val, LnMicro(n))

entropy(d, wtv) ==
    LET ent == EntropyValue(d, wtv) IN
    IF ent.kind = "raise" THEN ent
    ELSE LET nent == NormOf(d, ent) IN
         IF nent.kind = "raise" THEN nent
         ELSE [kind |-> "ret", ent |-> ent, nent |-> nent]

\* location_features.norm_entropy with ent=None: math.log(len(unique_loc)) is
\* taken before the comparison with 0
norm_entropy(d) ==
    LET ent == EntropyValue(d, None) IN
    IF ent.kind = "raise" THEN ent
    ELSE IF ent.kind = "nan" THEN NaN
    ELSE LET n == NumUnique(d) IN
         IF n = 0 THEN Raise("ValueError")
         ELSE IF LnMicro(n) = 0 THEN NaN
         ELSE Ratio(ent.val, LnMicro(n))

-----------------------------------------------------------------------------
(* home_stay, trans_time *)

\* "home_loc not in data[cluster_c].values"
InColumn(d, home_loc) == \E i \in 1..Len(d) : d[i].cluster = home_loc

\* mutant: the table is indexed without the membership test
home_stay_unguarded(d, home_loc, wtv) ==
    LET w == WaitTimeOr(d, wtv) IN
    IF w.kind = "raise" THEN w
    ELSE IF Len(w.waittime) = 0 THEN NaN
    ELSE IF home_loc \in DOMAIN w.cluster_wt
         THEN Num(w.cluster_wt[home_loc])
         ELSE Raise("KeyError")

home_stay(d, home_loc, wtv) ==
    IF ~InColumn(d, home_loc) THEN NaN
    ELSE LET w == WaitTimeOr(d, wtv) IN
         IF w.kind = "raise" THEN w
         ELSE IF Len(w.waittime) = 0 THEN NaN
         ELSE IF home_loc \in DOMAIN w.cluster_wt
              THEN Num(w.cluster_wt[home_loc])
              ELSE Raise("KeyError")

trans_time(d, wtv) ==
    LET w == WaitTimeOr(d, wtv) IN
    IF w.kind = "raise" THEN w
    ELSE IF Len(w.waittime) = 0 THEN NaN
    ELSE Num(total_time(d) - SumSeq(w.waittime))

-----------------------------------------------------------------------------
(* num_trips and num_clusters *)

\* data.loc[~pd.isnull(data[cluster_c])]: the labelled rows, in order
Labelled(d) == SelectSeq(d, LAMBDA r : ~isnull(r.cluster))

\* the loop of num_trips from row i of the labelled rows on; p is the
\* previous location
RECURSIVE TripLoop(_, _, _, _)
TripLoop(f, i, p, n_trip) ==
    IF i > Len(f) THEN n_trip
    ELSE IF p = f[i].cluster THEN TripLoop(f, i + 1, p, n_trip)
    ELSE TripLoop(f, i + 1, f[i].cluster, n_trip + 1)

\* num_trips that scans the rows as given, absent ones included
num_trips_unfiltered(d) ==
    IF Len(d) = 0 THEN NaN ELSE Num(TripLoop(d, 2, d[1].cluster, 0))

num_trips(d) ==
    LET f == Labelled(d) IN
    IF Len(f) = 0 THEN NaN ELSE Num(TripLoop(f, 2, f[1].cluster, 0))

\* num_clusters that keeps the absent label among the unique values
num_clusters_keeps_absent(d) ==
    IF Len(d) = 0 THEN Num(0)
    ELSE Num(Cardinality({d[i].cluster : i \in 1..Len(d)}))

\* num_clusters that counts the labelled rows instead of their unique ids
num_clusters_rows(d) == Num(Len(Labelled(d)))

num_clusters(d) ==
    LET f == Labelled(d) IN
    IF Len(f) = 0 THEN Num(0)
    ELSE Num(Cardinality({f[i].cluster : i \in 1..Len(f)}))

-----------------------------------------------------------------------------
(* displacement *)

List(vals) == [kind |-> "list", vals |-> vals]

Abs(x) == IF x < 0 THEN -x ELSE x

\* vincenty(a, b).m on the line of places; a NaN coordinate gives NaN
vincenty(a, b) ==
    IF a = NoPos \/ b = NoPos THEN NaN ELSE Num(Abs(a - b))

\* the rows of f at the positions S, in order
Pick(f, S) ==
    [j \in 1..Cardinality(S) |->
        f[CHOOSE i \in S : Cardinality({x \in S : x <= i}) = j]]

\* data.loc[data[cluster_c] != data[cluster_c].shift()]
LocationHistory(f) ==
    Pick(f, {i \in 1..Len(f) : i = 1 \/ f[i].cluster # f[i - 1].cluster})

\* the distances between the places of a location history, in order
Hops(locs) ==
    [j \in 1..(Len(locs) - 1) |-> vincenty(locs[j], locs[j + 1])]

\* displacement that measures from every labelled row to the next
displacement_every_row(d) ==
    LET f == Labelled(d) IN
    IF Len(f) = 1 THEN List(<<>>)
    ELSE List(Hops([j \in 1..Len(f) |-> f[j].pos]))

displacement(d) ==
    LET f == Labelled(d) IN
    IF Len(f) = 1 THEN List(<<>>)
    ELSE LET h == LocationHistory(f)
         IN  List(Hops([j \in 1..Len(h) |-> h[j].pos]))

-----------------------------------------------------------------------------
(* displacement of location_features.py *)

NoMapping == [kind |-> "none"]

Dict(f) == [kind |-> "dict", at |-> f]

\* motif.get_geo_center of a non-empty set of rows: a representative
\* place, the mean of the coordinates at hand taken on the grid of places
get_geo_center(rows) ==
    LET ps == SelectSeq([j \in 1..Len(rows) |-> rows[j].pos], LAMBDA x : x # NoPos)
    IN  IF Len(ps) = 0 THEN NoPos ELSE SumSeq(ps) \div Len(ps)

\* the history loop from row i on: prev_idx is the first row of the open run
RECURSIVE CentreLoop(_, _, _, _)
CentreLoop(f, i, prev_idx, loc_list) ==
    IF i > Len(f)
    THEN Append(loc_list, get_geo_center(SubSeq(f, prev_idx, Len(f))))
    ELSE IF f[i].cluster # f[prev_idx].cluster
         THEN CentreLoop(f, i + 1, i,
                         Append(loc_list, get_geo_center(SubSeq(f, prev_idx, i - 1))))
         ELSE CentreLoop(f, i + 1, prev_idx, loc_list)

RECURSIVE MappingLoop(_, _, _, _, _)
MappingLoop(f, i, prev_cluster, loc_list, cluster_mapping) ==
    IF i > Len(f) THEN Append(loc_list, cluster_mapping[prev_cluster])
    ELSE IF f[i].cluster # prev_cluster
         THEN MappingLoop(f, i + 1, f[i].cluster,
                          Append(loc_list, cluster_mapping[prev_cluster]),
                          cluster_mapping)
         ELSE MappingLoop(f, i + 1, prev_cluster, loc_list, cluster_mapping)

displacement_lf(d, cluster_mapping) ==
    LET f == Labelled(d) IN
    IF Len(f) <= 1 THEN List(<<>>)
    ELSE LET loc_list ==
                 IF cluster_mapping = NoMapping
                 THEN CentreLoop(f, 2, 1, <<>>)
                 ELSE MappingLoop(f, 2, f[1].cluster, <<>>, cluster_mapping.at)
         IN  IF Len(loc_list) <= 1 THEN List(<<>>) ELSE List(Hops(loc_list))

-----------------------------------------------------------------------------
(* max_dist_between_clusters *)

\* np.unique(data[cluster_c]) as a sorted sequence
Unique(f) ==
    LET S == {f[i].cluster : i \in 1..Len(f)}
    IN  [j \in 1..Cardinality(S) |->
            CHOOSE c \in S : Cardinality({x \in S : x <= c}) = j]

\* df.ix[0, lat_c], df.ix[0, lon_c] of the rows of location l
FirstCoord(f, l) == f[Min({i \in 1..Len(f) : f[i].cluster = l})].pos

\* the coordinates of the last row of location l
LastCoord(f, l) == f[Max({i \in 1..Len(f) : f[i].cluster = l})].pos

\* the two loops: the largest distance above the initial max_dist = 0; a NaN
\* distance never compares greater
MaxDistLoop(locations_coord) ==
    LET n == Len(locations_coord)
        ds == {vincenty(locations_coord[p[1]], locations_coord[p[2]]) :
                  p \in {q \in (1..(n - 1)) \X (2..n) : q[1] < q[2]}}
    IN  Max({0} \cup {x.val : x \in {y \in ds : y.kind = "num"}})

\* max_dist_between_clusters on the last coordinates of the clusters
max_dist_last_coord(d) ==
    LET f == Labelled(d) IN
    IF Len(f) = 0 THEN NaN
    ELSE LET locations == Unique(f) IN
         IF Len(locations) = 1 THEN Num(0)
         ELSE Num(MaxDistLoop([j \in 1..Len(locations) |-> LastCoord(f, locations[j])]))

max_dist_between_clusters(d) ==
    LET f == Labelled(d) IN
    IF Len(f) = 0 THEN NaN
    ELSE LET locations == Unique(f) IN
         IF Len(locations) = 1 THEN Num(0)
         ELSE Num(MaxDistLoop([j \in 1..Len(locations) |-> FirstCoord(f, locations[j])]))

-----------------------------------------------------------------------------
(* gyration_radius *)

\* data[[lat_c, lon_c, cluster_c]].dropna()
Complete(d) == SelectSeq(d, LAMBDA r : r.pos # NoPos /\ r.cluster # Absent)

\* Counter(loc_data[cluster_c])
Counter(f) ==
    [c \in {f[i].cluster : i \in 1..Len(f)} |->
        Cardinality({i \in 1..Len(f) : f[i].cluster = c})]

\* what cnt_locs.most_common()[:k] can be: k keys of which none is rarer
\* than a key left out; the order among equal counts is the dictionary's
MostCommon(cnt, k) ==
    {K \in SUBSET (DOMAIN cnt) :
        /\ Cardinality(K) = k
        /\ \A a \in K, b \in (DOMAIN cnt) \ K : cnt[a] >= cnt[b]}

\* math.sqrt(num / den)
Sqrt(num, den) == [kind |-> "sqrt", num |-> num, den |-> den]

Square(x) == x * x

\* the centre of mass and the weighted sum over the clusters of loc_data
Radius(loc_data) ==
    LET r_cm        == get_geo_center(loc_data)
        cluster_cnt == Counter(loc_data)
        sq          == [c \in DOMAIN cluster_cnt |->
                           cluster_cnt[c] *
                               Square(vincenty(r_cm, convert_geohash_to_gps(c)).val)]
    IN  Sqrt(SumFn(sq, DOMAIN sq), Len(loc_data))

\* gyration_radius that keeps every row whatever k
gyration_radius_all_rows(d, k, k_locations) ==
    LET loc_data == Complete(d) IN
    IF Len(loc_data) = 0 THEN NaN
    ELSE IF k # None /\ k.val > Cardinality(DOMAIN Counter(loc_data)) THEN NaN
    ELSE Radius(loc_data)

\* k is None or Num(n); k_locations is the outcome of most_common()[:k]
gyration_radius(d, k, k_locations) ==
    LET loc_data == Complete(d) IN
    IF Len(loc_data) = 0 THEN NaN
    ELSE IF k = None THEN Radius(loc_data)
    ELSE IF k.val > Cardinality(DOMAIN Counter(loc_data)) THEN NaN
    ELSE Radius(SelectSeq(loc_data, LAMBDA r : r.cluster \in k_locations))

\* the outcomes most_common()[:k] can have in gyration_radius(d, k)
KLocations(d, k) ==
    IF k = None \/ Len(Complete(d)) = 0 THEN {{}}
    ELSE IF k.val > Cardinality(DOMAIN Counter(Complete(d))) THEN {{}}
    ELSE MostCommon(Counter(Complete(d)), k.val)

-----------------------------------------------------------------------------
(* The caller's frame *)

\* wait_time assigning on the frame it was given
WaitTimeFrameCaller == "caller"

\* the frame wait_time assigns its columns on: the one it builds itself
\* from copies of the caller's columns
WaitTimeFrame == "local"

\* the call runs wait_time's column assignments: wait_time itself, and a
\* calculator that was passed no waiting-time output, on >= 2 rows
AssignsTd(d, op, passed) ==
    /\ op \in {"wait_time", "entropy", "norm_entropy", "home_stay", "trans_time"}
    /\ ~passed
    /\ Len(d) >= 2

\* the caller's frame after a call: the filters of the calculators build new
\* frames, and the only column assignments are wait_time's
AfterCall(d, op, passed) ==
    IF AssignsTd(d, op, passed) /\ WaitTimeFrame = "caller"
    THEN [i \in 1..Len(d) |-> [td |-> Td(d, i)] @@ d[i]]
    ELSE d

-----------------------------------------------------------------------------
(* Specification *)

\* the waiting-time output a caller may pass on: none, or what it kept
Passable == {None, wait_time_v}

Init ==
    /\ data \in AllSeries(MaxLen, Gaps) \cup EvenSeries(MaxEvenLen, Gaps)
    /\ wait_time_v = None
    /\ call = [op |-> "none"]

InitUnordered ==
    /\ data \in AllSeries(MaxLenUnordered, UnorderedGaps)
    /\ wait_time_v = None
    /\ call = [op |-> "none"]

\* the caller is synchronous: one call at a time, on the series it holds
Idle == call.op = "none"

CallWaitTime ==
    /\ Idle
    /\ wait_time_v' = wait_time(data)
    /\ call' = [op |-> "wait_time", ret |-> wait_time(data)]
    /\ data' = AfterCall(data, "wait_time", FALSE)

CallEntropy ==
    /\ Idle
    /\ \E v \in Passable :
           /\ call' = [op |-> "entropy", passed |-> v # None, ret |-> entropy(data, v)]
           /\ data' = AfterCall(data, "entropy", v # None)
    /\ UNCHANGED wait_time_v

CallNormEntropy ==
    /\ Idle
    /\ call' = [op |-> "norm_entropy", ret |-> norm_entropy(data)]
    /\ data' = AfterCall(data, "norm_entropy", FALSE)
    /\ UNCHANGED wait_time_v

CallHomeStay ==
    /\ Idle
    /\ \E v \in Passable, home_loc \in ClusterIds :
           /\ call' = [op |-> "home_stay", passed |-> v # None, home_loc |-> home_loc,
                       ret |-> home_stay(data, home_loc, v)]
           /\ data' = AfterCall(data, "home_stay", v # None)
    /\ UNCHANGED wait_time_v

CallTransTime ==
    /\ Idle
    /\ \E v \in Passable :
           /\ call' = [op |-> "trans_time", passed |-> v # None, ret |-> trans_time(data, v)]
           /\ data' = AfterCall(data, "trans_time", v # None)
    /\ UNCHANGED wait_time_v

CallNumTrips ==
    /\ Idle
    /\ call' = [op |-> "num_trips", ret |-> num_trips(data)]
    /\ data' = AfterCall(data, "num_trips", TRUE)
    /\ UNCHANGED wait_time_v

CallNumClusters ==
    /\ Idle
    /\ call' = [op |-> "num_clusters", ret |-> num_clusters(data)]
    /\ data' = AfterCall(data, "num_clusters", TRUE)
    /\ UNCHANGED wait_time_v

CallDisplacement ==
    /\ Idle
    /\ call' = [op |-> "displacement", ret |-> displacement(data)]
    /\ data' = AfterCall(data, "displacement", TRUE)
    /\ UNCHANGED wait_time_v

\* the caller takes the result; it keeps what wait_time returned
Return ==
    /\ ~Idle
    /\ call' = [op |-> "none"]
    /\ UNCHANGED <<data, wait_time_v>>

Next ==
    \/ CallWaitTime
    \/ CallEntropy
    \/ CallNormEntropy
    \/ CallHomeStay
    \/ CallTransTime
    \/ CallNumTrips
    \/ CallNumClusters
    \/ CallDisplacement
    \/ Return

Spec == Init /\ [][Next]_vars

\* the same calls on series whose timestamps repeat or go backwards
NextUnordered ==
    \/ CallWaitTime
    \/ CallHomeStay
    \/ CallTransTime
    \/ Return

SpecUnordered == InitUnordered /\ [][NextUnordered]_vars

\* the series of the spatial calculators: rows with coordinates
InitGeo ==
    /\ \E n \in 0..MaxLenClustered :
           \E cs \in [1..n -> GeoLabels] :
               \E xs \in GeoCoords(cs) : data = MkGeoSeries(cs, xs)
    /\ wait_time_v = None
    /\ call = [op |-> "none"]

\* a mapping that covers every cluster id
ClusterMapping == Dict([c \in GeoClusterIds |-> convert_geohash_to_gps(c)])

\* the k a caller asks for: none, or 1 up to one more than the ids there are
Ks == {None} \cup {Num(n) : n \in 1..(Cardinality(GeoClusterIds) + 1)}

CallDisplacementLF ==
    /\ Idle
    /\ \E cluster_mapping \in {NoMapping, ClusterMapping} :
           call' = [op |-> "displacement_lf", mapped |-> cluster_mapping # NoMapping,
                    ret |-> displacement_lf(data, cluster_mapping)]
    /\ data' = AfterCall(data, "displacement_lf", TRUE)
    /\ UNCHANGED wait_time_v

CallMaxDist ==
    /\ Idle
    /\ call' = [op |-> "max_dist_between_clusters",
                ret |-> max_dist_between_clusters(data)]
    /\ data' = AfterCall(data, "max_dist_between_clusters", TRUE)
    /\ UNCHANGED wait_time_v

CallGyrationRadius ==
    /\ Idle
    /\ \E k \in Ks :
           \E k_locations \in KLocations(data, k) :
               call' = [op |-> "gyration_radius", k |-> k, k_locations |-> k_locations,
                        ret |-> gyration_radius(data, k, k_locations)]
    /\ data' = AfterCall(data, "gyration_radius", TRUE)
    /\ UNCHANGED wait_time_v

NextGeo ==
    \/ CallDisplacement
    \/ CallDisplacementLF
    \/ CallMaxDist
    \/ CallGyrationRadius
    \/ Return

SpecGeo == InitGeo /\ [][NextGeo]_vars

-----------------------------------------------------------------------------
(* Vocabulary of the properties: visit runs, stated without the scan *)

Column(d) == [i \in 1..Len(d) |-> d[i].cluster]

AllAbsent(d) == \A i \in 1..Len(d) : d[i].cluster = Absent

\* first rows of the visit runs: a labelled row that does not continue the
\* cluster of the row before it
RunStarts(d) ==
    {i \in 1..Len(d) : /\ d[i].cluster # Absent
                       /\ (i = 1 \/ d[i - 1].cluster # d[i].cluster)}

\* the rows of the run that starts at row s
RunRows(d, s) ==
    {j \in s..Len(d) : \A k \in s..j : d[k].cluster = d[s].cluster}

\* the first row of the j-th run
NthStart(d, j) ==
    CHOOSE s \in RunStarts(d) : Cardinality({x \in RunStarts(d) : x <= s}) = j

NumRuns(d) == Cardinality(RunStarts(d))

\* whole seconds of a weight of h half-seconds, days included
WholeSeconds(h) == h \div 2

\* the timestamps repeat or go backwards somewhere
Unordered(d) == \E i \in 1..(Len(d) - 1) : d[i + 1].time <= d[i].time

\* the whole series spans less than a day
WithinADay(d) == \A i \in 1..Len(d) : d[i].time < SecondsPerDay

\* the series d with one more observation, of cluster c, g seconds later
Appended(d, g, c) ==
    Append(d, Row(IF Len(d) = 0 THEN 0 ELSE d[Len(d)].time + g, c, GeohashPos(c)))

WaitTimeReturned == call.op = "wait_time" /\ call.ret.kind = "ret"

-----------------------------------------------------------------------------
\* C1: wait_time on a series whose clusters are all absent returns the empty
\* waiting-time list and the empty dwell-time table, whatever the length.
C1_AllAbsentEmpty ==
    (call.op = "wait_time" /\ AllAbsent(data))
        => call.ret = Returned(<<>>, EmptyTable)

\* C2: the waiting-time list and the dwell-time table of one call have the
\* same sum, up to one second of truncation per visit run.
C2_SumsAgree ==
    WaitTimeReturned =>
        LET wt   == SumSeq(call.ret.waittime)
            cwt  == SumFn(call.ret.cluster_wt, DOMAIN call.ret.cluster_wt)
            runs == Len(call.ret.waittime)
        IN  wt - cwt <= runs /\ cwt - wt <= runs

\* C3: for a series of at least two observations with a labelled one, the
\* waiting-time list has one entry per visit run, in run order (entry j is
\* the seconds field of the summed weights of the j-th run); the column
\* [1, 1, absent, 2, 1, absent] gives 3 entries.
C3_OneEntryPerRun ==
    (WaitTimeReturned /\ Len(data) >= 2 /\ ~AllAbsent(data)) =>
        /\ Len(call.ret.waittime) = NumRuns(data)
        /\ \A j \in 1..NumRuns(data) :
               call.ret.waittime[j] =
                   Seconds(SumTd(data, RunRows(data, NthStart(data, j))))
        /\ (Column(data) = ScenarioClusters => Len(call.ret.waittime) = 3)

C3_Witness ==
    /\ WaitTimeReturned
    /\ Column(data) = ScenarioClusters
    /\ Len(call.ret.waittime) = 3

\* C4: a series of at most one observation gives ([], {}): no entry and no
\* zero-duration placeholder in the table.
C4_ShortSeriesEmpty ==
    (call.op = "wait_time" /\ Len(data) <= 1)
        => call.ret = Returned(<<>>, EmptyTable)

C4_Witness ==
    /\ call.op = "wait_time"
    /\ Len(data) = 1
    /\ data[1].cluster # Absent
    /\ call.ret = Returned(<<>>, EmptyTable)

\* C5: every waiting-time entry is the summed weight of its run truncated to
\* whole seconds, and is not negative, whatever the duration of the run
\* (stated for series with a labelled observation).
C5_EntryIsRunSeconds ==
    (WaitTimeReturned /\ Len(data) >= 2 /\ ~AllAbsent(data)) =>
        \A j \in 1..Len(call.ret.waittime) :
            /\ call.ret.waittime[j] >= 0
            /\ j <= NumRuns(data)
            /\ call.ret.waittime[j] =
                   WholeSeconds(SumTd(data, RunRows(data, NthStart(data, j))))

\* C6: for a series of at least two observations the keys of the dwell-time
\* table are the labelled cluster ids of the input, and each value is the
\* summed weight of all rows of that cluster truncated to whole seconds.
C6_TableIsClusterSeconds ==
    (WaitTimeReturned /\ Len(data) >= 2) =>
        /\ DOMAIN call.ret.cluster_wt = {data[i].cluster : i \in 1..Len(data)} \ {Absent}
        /\ \A c \in DOMAIN call.ret.cluster_wt :
               call.ret.cluster_wt[c] =
                   WholeSeconds(SumTd(data, {i \in 1..Len(data) : data[i].cluster = c}))

\* C7: entropy does not raise on an empty series, a single observation, an
\* all-absent series or a series with one distinct cluster.
C7_EntropyNeverRaises ==
    (/\ call.op \in {"entropy", "norm_entropy"}
     /\ (Len(data) <= 1 \/ AllAbsent(data) \/ NumUnique(data) = 1))
        => call.ret.kind # "raise"

\* C8: home_stay for a cluster that is not in the column is the missing
\* sentinel, with or without a passed waiting-time output; for a cluster in
\* the column and a non-empty waiting-time list it is that cluster's entry
\* of the dwell-time table.
C8_HomeStay ==
    call.op = "home_stay" =>
        /\ ~InColumn(data, call.home_loc) => call.ret = NaN
        /\ (InColumn(data, call.home_loc) /\ Len(wait_time(data).waittime) > 0)
               => call.ret = Num(wait_time(data).cluster_wt[call.home_loc])

C8_Witness ==
    /\ call.op = "home_stay"
    /\ call.passed
    /\ ~InColumn(data, call.home_loc)
    /\ ~AllAbsent(data)
    /\ Len(wait_time(data).waittime) > 0
    /\ call.ret = NaN

\* C9 as stated: on repeated or backward timestamps wait_time and the
\* calculators built on it raise instead of returning (stated for series
\* with a labelled observation).
C9_UnorderedRaises ==
    (/\ call.op \in {"wait_time", "home_stay", "trans_time"}
     /\ Unordered(data)
     /\ ~AllAbsent(data))
        => call.ret.kind = "raise"

\* C9 as amended: wait_time, home_stay and trans_time do not validate the
\* timestamps; on repeated or backward timestamps wait_time returns a list
\* and a table of seconds fields (0..86399), home_stay and trans_time a
\* number or the missing sentinel.
C9_UnorderedReturns ==
    Unordered(data) =>
        /\ call.op = "wait_time" =>
               /\ call.ret.kind = "ret"
               /\ \A j \in 1..Len(call.ret.waittime) :
                      call.ret.waittime[j] \in 0..(SecondsPerDay - 1)
               /\ \A c \in DOMAIN call.ret.cluster_wt :
                      call.ret.cluster_wt[c] \in 0..(SecondsPerDay - 1)
        /\ call.op \in {"home_stay", "trans_time"} => call.ret.kind \in {"num", "nan"}

C9_Witness ==
    /\ call.op = "wait_time"
    /\ \E i \in 1..(Len(data) - 1) : data[i + 1].time < data[i].time
    /\ call.ret.kind = "ret"
    /\ Len(call.ret.waittime) = 2

\* C10: a defined normalized entropy lies in [0, 1], absent samples between
\* labelled ones included (stated for series that span less than a day).
C10_NormEntropyInUnitInterval ==
    (/\ call.op \in {"entropy", "norm_entropy"}
     /\ WithinADay(data)
     /\ IF call.op = "entropy"
        THEN call.ret.kind = "ret" /\ call.ret.nent.kind = "ratio"
        ELSE call.ret.kind = "ratio")
        => LET nent == IF call.op = "entropy" THEN call.ret.nent ELSE call.ret
           IN  0 <= nent.num /\ nent.num <= nent.den

\* the pairs of labelled rows with no labelled row between them
AdjacentLabelled(d) ==
    {p \in (1..Len(d)) \X (1..Len(d)) :
        /\ p[1] < p[2]
        /\ d[p[1]].cluster # Absent
        /\ d[p[2]].cluster # Absent
        /\ \A k \in (p[1] + 1)..(p[2] - 1) : d[k].cluster = Absent}

\* the changes of cluster between labelled rows that follow one another
Trips(d) ==
    Cardinality({p \in AdjacentLabelled(d) : d[p[1]].cluster # d[p[2]].cluster})

\* C11: num_trips returns the missing sentinel exactly when no observation
\* is labelled (empty or all absent); otherwise the number of adjacent pairs
\* of different clusters in the series without its absent rows: 0 for one
\* cluster whatever the length, 1 for [1, absent, 2], 2 for
\* [1, 1, absent, 2, 1, absent].
C11_NumTrips ==
    call.op = "num_trips" =>
        /\ (call.ret = NaN) <=> AllAbsent(data)
        /\ ~AllAbsent(data) => call.ret = Num(Trips(data))
        /\ NumUnique(data) = 1 => call.ret = Num(0)
        /\ Column(data) = <<1, Absent, 2>> => call.ret = Num(1)
        /\ Column(data) = ScenarioClusters => call.ret = Num(2)

C11_Witness ==
    /\ call.op = "num_trips"
    /\ Column(data) = ScenarioClusters
    /\ call.ret = Num(2)

\* C15: num_clusters is the number of distinct labelled cluster ids (0 when
\* there is none); one more observation at the end never lowers it, and an
\* observation of a cluster id that was not yet in the series raises it by
\* exactly one.
C15_NumClustersMonotonic ==
    call.op = "num_clusters" =>
        /\ call.ret = Num(Cardinality({data[i].cluster : i \in 1..Len(data)} \ {Absent}))
        /\ \A g \in Gaps, c \in Labels :
               LET more == num_clusters(Appended(data, g, c)) IN
               /\ more.kind = "num"
               /\ more.val >= call.ret.val
               /\ (c # Absent /\ ~InColumn(data, c)) => more.val = call.ret.val + 1

C15_Witness ==
    /\ call.op = "num_clusters"
    /\ call.ret = Num(1)
    /\ InColumn(data, Absent)
    /\ \E c \in ClusterIds : num_clusters(Appended(data, 1, c)) = Num(2)

\* C17: for a series of n >= 2 observations the weights of the rows (half
\* the first gap, half the last gap, the mean of the two adjacent gaps in
\* between) sum to exactly t[n-1] - t[0]; the model counts weights in half
\* seconds.
C17_WeightsSumToSpan ==
    (call.op = "wait_time" /\ Len(data) >= 2) =>
        SumTd(data, 1..Len(data)) = 2 * (data[Len(data)].time - data[1].time)

C17_Witness ==
    /\ call.op = "wait_time"
    /\ Len(data) = MaxLen
    /\ \E i \in 2..(Len(data) - 1) :
           data[i + 1].time - data[i].time # data[i].time - data[i - 1].time
    /\ SumTd(data, 1..Len(data)) = 2 * (data[Len(data)].time - data[1].time)

\* C18: whenever trans_time is defined (the waiting-time list is not empty)
\* its result is at least 0 and at most the elapsed seconds between the
\* first and the last observation, whatever the span of the series.
C18_TransTimeInRange ==
    (call.op = "trans_time" /\ call.ret.kind = "num") =>
        /\ call.ret.val >= 0
        /\ call.ret.val <= data[Len(data)].time - data[1].time

\* C19: with a labelled observation, num_trips is at least num_clusters - 1,
\* and num_trips is 0 exactly when num_clusters is 1.
C19_TripsBoundClusters ==
    (call.op = "num_trips" /\ ~AllAbsent(data)) =>
        /\ call.ret.kind = "num"
        /\ call.ret.val >= num_clusters(data).val - 1
        /\ (call.ret.val = 0) <=> (num_clusters(data).val = 1)

C19_Witness ==
    /\ call.op = "num_trips"
    /\ InColumn(data, Absent)
    /\ num_clusters(data) = Num(2)
    /\ call.ret = Num(3)

\* C16: wait_time, entropy, home_stay, trans_time, num_trips, num_clusters
\* and displacement never change the series the caller passed: across every
\* call, and so after any sequence of calls, its timestamps, cluster labels
\* and coordinates are what they were.
C16_CallerSeriesUntouched == [][data' = data]_vars

C16_Witness ==
    /\ call.op = "wait_time"
    /\ Len(data) >= 2
    /\ ~AllAbsent(data)
    /\ \A i \in 1..Len(data) : DOMAIN data[i] = {"time", "cluster", "pos"}

-----------------------------------------------------------------------------
(* Vocabulary of the spatial properties: runs of the series without its
   absent rows *)

LabelledRows(d) == {i \in 1..Len(d) : d[i].cluster # Absent}

\* first rows of the runs of the labelled rows: a labelled row whose
\* cluster differs from that of the labelled row before it
DroppedRunStarts(d) ==
    {i \in LabelledRows(d) :
        LET before == {j \in LabelledRows(d) : j < i}
        IN  before = {} \/ d[Max(before)].cluster # d[i].cluster}

NumDroppedRuns(d) == Cardinality(DroppedRunStarts(d))

NthDroppedStart(d, j) ==
    CHOOSE s \in DroppedRunStarts(d) :
        Cardinality({x \in DroppedRunStarts(d) : x <= s}) = j

\* the labelled rows of the j-th run
DroppedRunRows(d, j) ==
    {i \in LabelledRows(d) :
        /\ NthDroppedStart(d, j) <= i
        /\ \A s \in DroppedRunStarts(d) : s > NthDroppedStart(d, j) => i < s}

\* the place that stands for the j-th run in each variant of displacement
Representative(d, j, c) ==
    IF c.op = "displacement" THEN d[NthDroppedStart(d, j)].pos
    ELSE IF c.mapped THEN ClusterMapping.at[d[NthDroppedStart(d, j)].cluster]
    ELSE get_geo_center(Pick(d, DroppedRunRows(d, j)))

\* C12: displacement returns the empty list when fewer than 2 labelled
\* observations are left or when they form one run; otherwise it has one
\* entry per transition between consecutive runs of the series without its
\* absent rows, in order (runs - 1 entries), with a mapping, without one, and
\* in both modules.
C12_DisplacementPerTransition ==
    call.op \in {"displacement", "displacement_lf"} =>
        LET runs == NumDroppedRuns(data) IN
        /\ call.ret.kind = "list"
        /\ (Cardinality(LabelledRows(data)) < 2 \/ runs = 1) => call.ret.vals = <<>>
        /\ (Cardinality(LabelledRows(data)) >= 2 /\ runs > 1) =>
               /\ Len(call.ret.vals) = runs - 1
               /\ \A j \in 1..(runs - 1) :
                      call.ret.vals[j] =
                          vincenty(Representative(data, j, call),
                                   Representative(data, j + 1, call))

C12_Witness ==
    /\ call.op = "displacement_lf"
    /\ ~call.mapped
    /\ InColumn(data, Absent)
    /\ NumDroppedRuns(data) = 3
    /\ Cardinality(LabelledRows(data)) = 4
    /\ Len(call.ret.vals) = 2

\* the coordinates of the first row of cluster c
FirstSeen(d, c) == d[Min({i \in 1..Len(d) : d[i].cluster = c})].pos

\* C13: max_dist_between_clusters returns the missing sentinel when no
\* observation is labelled, 0 when one distinct cluster id is present
\* whatever the number of observations, and otherwise the largest distance
\* between the first observed coordinates of two distinct clusters (stated
\* for series whose labelled rows all carry coordinates).
C13_MaxDist ==
    call.op = "max_dist_between_clusters" =>
        /\ AllAbsent(data) => call.ret = NaN
        /\ Cardinality(GroupKeys(data)) = 1 => call.ret = Num(0)
        /\ (/\ Cardinality(GroupKeys(data)) >= 2
            /\ \A i \in LabelledRows(data) : data[i].pos # NoPos) =>
               call.ret =
                   Num(Max({Abs(FirstSeen(data, a) - FirstSeen(data, b)) :
                               a \in GroupKeys(data), b \in GroupKeys(data)}))

C13_Witness ==
    /\ call.op = "max_dist_between_clusters"
    /\ Cardinality(GroupKeys(data)) = 3
    /\ \A i \in LabelledRows(data) : data[i].pos # NoPos
    /\ FirstSeen(data, 1) = FirstSeen(data, 2)
    /\ call.ret.val = Abs(FirstSeen(data, 2) - FirstSeen(data, 3))
    /\ call.ret.val > 0

\* the rows with latitude, longitude and cluster all present
CompleteRows(d) == {i \in 1..Len(d) : d[i].cluster # Absent /\ d[i].pos # NoPos}

CompleteClusters(d) == {d[i].cluster : i \in CompleteRows(d)}

Visits(d, c) == Cardinality({i \in CompleteRows(d) : d[i].cluster = c})

\* the series d with one more row, of cluster c at place x
WithRow(d, c, x) == Append(d, Row(Len(d), c, x))

\* every radius gyration_radius(d, k) can return
Radii(d, k) == {gyration_radius(d, k, K) : K \in KLocations(d, k)}

\* cluster c is visited less often in d than each cluster of K
LessFrequent(d, c, K) == c \notin K /\ \A a \in K : Visits(d, c) < Visits(d, a)

\* C14: gyration_radius returns the missing sentinel when no row has
\* latitude, longitude and cluster all present, or when k exceeds the number
\* of distinct clusters (of these rows); for a valid k the radius is computed
\* over exactly the rows of k most visited clusters, so that one more row of
\* a cluster that stays less visited than each of them leaves the k-th
\* radius as it was.
C14_GyrationRadius ==
    call.op = "gyration_radius" =>
        /\ CompleteRows(data) = {} => call.ret = NaN
        /\ (call.k # None /\ call.k.val > Cardinality(CompleteClusters(data)))
               => call.ret = NaN
        /\ (/\ call.k # None
            /\ CompleteRows(data) # {}
            /\ call.k.val <= Cardinality(CompleteClusters(data))) =>
               /\ call.k_locations \subseteq CompleteClusters(data)
               /\ Cardinality(call.k_locations) = call.k.val
               /\ \A a \in call.k_locations, b \in CompleteClusters(data) \ call.k_locations :
                      Visits(data, a) >= Visits(data, b)
               /\ call.ret =
                      Radius(Pick(data, {i \in CompleteRows(data) :
                                            data[i].cluster \in call.k_locations}))
               /\ \A c \in GeoClusterIds, x \in Places :
                      LessFrequent(WithRow(data, c, x), c, call.k_locations) =>
                          /\ gyration_radius(WithRow(data, c, x), call.k, call.k_locations)
                                 = call.ret
                          /\ Radii(WithRow(data, c, x), call.k) = Radii(data, call.k)

C14_Witness ==
    /\ call.op = "gyration_radius"
    /\ call.k = Num(2)
    /\ call.ret.kind = "sqrt"
    /\ call.ret.num > 0
    /\ \E c \in GeoClusterIds :
           /\ LessFrequent(WithRow(data, c, convert_geohash_to_gps(c)), c, call.k_locations)
           /\ gyration_radius(WithRow(data, c, convert_geohash_to_gps(c)), call.k,
                              call.k_locations) = call.ret

=============================================================================
